---------------------------- MODULE Spec2Model ----------------------------
(***************************************************************************)
(* A model of the May voice assistant (src/backend/may.py): the passive    *)
(* wake-word loop, the conversation loop, the response pipeline, the       *)
(* reminder and battery checks, the persisted config and the side-display  *)
(* link.                                                                   *)
(*                                                                         *)
(* Python strings are sequences of one-character strings, so that          *)
(* lower(), the `in` substring test, replace() and strip() are computed.   *)
(* Python's None is the one-element sequence None, which no text equals.   *)
(***************************************************************************)
EXTENDS Integers, Sequences, FiniteSets, TLC

(***************************************************************************)
(* Text: str.lower, `in`, str.replace(w, ""), str.strip                     *)
(***************************************************************************)
None == <<"<None>">>

UpperLetters == <<"A", "B", "C", "D", "E", "F", "G", "H", "I", "J", "K", "L", "M",
                  "N", "O", "P", "Q", "R", "S", "T", "U", "V", "W", "X", "Y", "Z">>

LowerLetters == <<"a", "b", "c", "d", "e", "f", "g", "h", "i", "j", "k", "l", "m",
                  "n", "o", "p", "q", "r", "s", "t", "u", "v", "w", "x", "y", "z">>

\* the case mapping of str.lower() on the letters A-Z
ToLower ==
    [c \in {UpperLetters[i] : i \in 1..Len(UpperLetters)} |->
        LowerLetters[CHOOSE i \in 1..Len(UpperLetters) : UpperLetters[i] = c]]

LowerChar(c) == IF c \in DOMAIN ToLower THEN ToLower[c] ELSE c

\* str.lower()
Lower(s) == [i \in 1..Len(s) |-> LowerChar(s[i])]

\* `sub in s` for a non-empty sub
Contains(s, sub) ==
    \E i \in 1..(Len(s) - Len(sub) + 1) : SubSeq(s, i, i + Len(sub) - 1) = sub

\* s.replace(w, ""): every non-overlapping occurrence, scanning from the left
RECURSIVE ReplaceAll(_, _)
ReplaceAll(s, w) ==
    IF Len(s) < Len(w) THEN s
    ELSE IF SubSeq(s, 1, Len(w)) = w
         THEN ReplaceAll(SubSeq(s, Len(w) + 1, Len(s)), w)
         ELSE <<Head(s)>> \o ReplaceAll(Tail(s), w)

RECURSIVE LStrip(_)
LStrip(s) == IF s # <<>> /\ Head(s) = " " THEN LStrip(Tail(s)) ELSE s

RECURSIVE RStrip(_)
RStrip(s) ==
    IF s # <<>> /\ s[Len(s)] = " " THEN RStrip(SubSeq(s, 1, Len(s) - 1)) ELSE s

\* str.strip()
Strip(s) == RStrip(LStrip(s))

\* Python truthiness of an Optional[str]: None and "" are falsy
Truthy(s) == s # None /\ s # <<>>

(***************************************************************************)
(* Wake words and termination phrases (may.py 80-81)                       *)
(***************************************************************************)
WAKE_WORDS == << <<"m", "a", "y">> >>

TERMINATION_WORDS ==
    << <<"g", "o", "o", "d", "b", "y", "e">>,
       <<"b", "y", "e">>,
       <<"s", "e", "e", " ", "y", "o", "u", " ", "l", "a", "t", "e", "r">>,
       <<"t", "a", "l", "k", " ", "t", "o", " ", "y", "o", "u", " ", "l", "a", "t", "e", "r">>,
       <<"s", "t", "o", "p", " ", "l", "i", "s", "t", "e", "n", "i", "n", "g">>,
       <<"g", "o", " ", "t", "o", " ", "s", "l", "e", "e", "p">>,
       <<"s", "l", "e", "e", "p", " ", "n", "o", "w">> >>

\* text_lower.replace(word, "").strip()
WakeQuery(text_lower, word) == Strip(ReplaceAll(text_lower, word))

\* check_wake_word(text) -> (detected, query)
check_wake_word(text) ==
    IF ~Truthy(text) THEN [detected |-> FALSE, query |-> None]
    ELSE LET text_lower == Lower(text)
             hits == {i \in 1..Len(WAKE_WORDS) : Contains(text_lower, WAKE_WORDS[i])}
         IN  IF hits = {} THEN [detected |-> FALSE, query |-> None]
             ELSE LET word == WAKE_WORDS[CHOOSE i \in hits : \A j \in hits : i <= j]
                      query == WakeQuery(text_lower, word)
                  IN  [detected |-> TRUE, query |-> IF query # <<>> THEN query ELSE None]

TerminationNoLower(text) ==
    IF ~Truthy(text) THEN FALSE
    ELSE \E i \in 1..Len(TERMINATION_WORDS) : Contains(text, TERMINATION_WORDS[i])

\* check_termination(text) -> bool
check_termination(text) ==
    IF ~Truthy(text) THEN FALSE
    ELSE LET text_lower == Lower(text)
         IN  \E i \in 1..Len(TERMINATION_WORDS) : Contains(text_lower, TERMINATION_WORDS[i])

(***************************************************************************)
(* Response pipeline: keyword tables (may.py 740, 748, 664-670, 644-654)   *)
(***************************************************************************)
TimeKeywords ==
    << <<"t", "i", "m", "e">>,
       <<"c", "l", "o", "c", "k">>,
       <<"h", "o", "u", "r">>,
       <<"w", "h", "a", "t", " ", "t", "i", "m", "e">> >>

DateKeywords ==
    << <<"d", "a", "t", "e">>,
       <<"d", "a", "y", " ", "i", "s", " ", "i", "t">>,
       <<"t", "o", "d", "a", "y">> >>

CasualKeys ==
    << <<"h", "o", "w", " ", "a", "r", "e", " ", "y", "o", "u">>,
       <<"w", "h", "a", "t", "'", "s", " ", "u", "p">>,
       <<"h", "e", "l", "l", "o">>,
       <<"t", "h", "a", "n", "k", "s">>,
       <<"h", "e", "l", "p">> >>

W_excited == <<"e", "x", "c", "i", "t", "e", "d">>

W_sad == <<"s", "a", "d">>

AnyKeyword(keywords, s) == \E i \in 1..Len(keywords) : Contains(s, keywords[i])

\* the keys of the `responses` table of get_emotion_aware_response
EmotionTable ==
    {"Joy", "Excitement", "Sadness", "Distress", "Anger", "Anxiety", "Calm", "Surprise", "Fear"}

\* models_to_try, in order
ModelsToTry == <<"claude-sonnet-4-5-20250929", "claude-3-5-sonnet-20241022">>

NoResponse == [kind |-> "none", tag |-> ""]
NoEmotions == [primary |-> "", score |-> 0, source |-> "none"]

(***************************************************************************)
(* Emotion detection (may.py 519-626).  Scores and polarities are in       *)
(* hundredths: 0.3 is 30, 0.5 is 50.                                       *)
(***************************************************************************)
PolarityThreshold == 30
FallbackScore == 50

\* TextBlob's lexical polarity of the text, in hundredths: the lexicon entries
\* the utterances of this model touch ("so excited": 0.49, "sad": -0.5)
Polarity(text) ==
    IF Contains(Lower(text), W_excited) THEN 49
    ELSE IF Contains(Lower(text), W_sad) THEN 0 - 50
    ELSE 0

\* TextBlob(text).sentiment raising instead of giving a polarity
PolarityError == 0 - 999

SentimentOfPolarityInclusive(polarity) ==
    IF polarity = PolarityError THEN "neutral"
    ELSE IF polarity >= PolarityThreshold THEN "positive"
    ELSE IF polarity <= 0 - PolarityThreshold THEN "negative"
    ELSE "neutral"

\* the body of fallback_sentiment, from the polarity TextBlob gave
SentimentOfPolarity(polarity) ==
    IF polarity = PolarityError THEN "neutral"
    ELSE IF polarity > PolarityThreshold THEN "positive"
    ELSE IF polarity < 0 - PolarityThreshold THEN "negative"
    ELSE "neutral"

\* fallback_sentiment(text)
fallback_sentiment(text) == SentimentOfPolarity(Polarity(text))

\* emotion_map.get(sentiment, "Calm")
emotion_map(sentiment) ==
    CASE sentiment = "positive" -> "Joy"
      [] sentiment = "negative" -> "Sadness"
      [] OTHER -> "Calm"

\* the fallback result of detect_emotions_fast, score 0.5
FallbackEmotionOf(polarity) ==
    [primary |-> emotion_map(SentimentOfPolarity(polarity)), score |-> FallbackScore,
     source |-> "fallback"]

FallbackEmotion(text) == FallbackEmotionOf(Polarity(text))

\* `not self.hume_api_key or self.hume_api_key.startswith("YOUR")`
HumeUnconfigured(key) == key \in {"none", "placeholder"}

\* what the emotion service can answer: a top emotion with its score, or a failure
HumeOutcomes ==
    {[ok |-> TRUE, name |-> "Anger", score |-> 90],
     [ok |-> FALSE, name |-> "", score |-> 0]}

\* the two requests of detect_emotions_fast as the service can answer them: the
\* transport, the status of the POST, a job id in its body, the status of the
\* GET, and the prediction payload
HumeReplies ==
    [net : {"ok", "error"}, post_status : {200, 201, 500}, job_id : BOOLEAN,
     get_status : {200, 404}, payload : {"emotions", "empty", "malformed"}]

\* lines 561-620: a top emotion comes back only when every stage succeeds
HumeResult(reply) ==
    IF /\ reply.net = "ok"
       /\ reply.post_status \in {200, 201}
       /\ reply.job_id
       /\ reply.get_status = 200
       /\ reply.payload = "emotions"
    THEN [ok |-> TRUE, name |-> "Anger", score |-> 90]
    ELSE [ok |-> FALSE, name |-> "", score |-> 0]

DetectEmotionsNoFallback(polarity, key, hume) ==
    IF HumeUnconfigured(key)
    THEN [emotions |-> FallbackEmotionOf(polarity), called |-> FALSE]
    ELSE IF hume.ok
         THEN [emotions |-> [primary |-> hume.name, score |-> hume.score, source |-> "hume"],
               called |-> TRUE]
         ELSE [emotions |-> NoEmotions, called |-> TRUE]

\* the body of detect_emotions_fast, from the polarity of the text
DetectEmotions(polarity, key, hume) ==
    IF HumeUnconfigured(key)
    THEN [emotions |-> FallbackEmotionOf(polarity), called |-> FALSE]
    ELSE IF hume.ok
         THEN [emotions |-> [primary |-> hume.name, score |-> hume.score, source |-> "hume"],
               called |-> TRUE]
         ELSE [emotions |-> FallbackEmotionOf(polarity), called |-> TRUE]

\* detect_emotions_fast(text) -> the emotions, and whether the service was called
detect_emotions_fast(text, key, hume) == DetectEmotions(Polarity(text), key, hume)

(***************************************************************************)
(* Response generation (may.py 638-676, 735-806)                           *)
(***************************************************************************)
\* get_emotion_aware_response(query, emotions): random.choice(responses.get(emotion,
\* responses["Calm"])); the response records the table entry the reply is drawn from
get_emotion_aware_response(emotions) ==
    LET emotion == IF emotions # NoEmotions THEN emotions.primary ELSE "Calm"
        entry == IF emotion \in EmotionTable THEN emotion ELSE "Calm"
    IN  [kind |-> "emotion_aware", tag |-> entry]

\* get_casual_response(query): the first entry, in dict order, whose key is in query_lower
get_casual_response(query) ==
    LET query_lower == Lower(query)
        hits == {i \in 1..Len(CasualKeys) : Contains(query_lower, CasualKeys[i])}
    IN  IF hits = {} THEN NoResponse
        ELSE LET k == CHOOSE i \in hits : \A j \in hits : i <= j
             IN  [kind |-> "casual", tag |-> CasualKeys[k]]

\* what one messages.create call can do
ModelOutcomes == {"ok", "AnthropicError", "Exception"}

\* the for-loop over models_to_try: [response, tried] from model i on
RECURSIVE TryModels(_, _, _)
TryModels(i, outcomes, emotions) ==
    IF i > Len(ModelsToTry)
    THEN [response |-> get_emotion_aware_response(emotions), tried |-> i - 1]
    ELSE CASE outcomes[i] = "ok" ->
                [response |-> [kind |-> "llm", tag |-> ModelsToTry[i]], tried |-> i]
           [] outcomes[i] = "AnthropicError" ->
                TryModels(i + 1, outcomes, emotions)
           [] OTHER ->
                [response |-> get_emotion_aware_response(emotions), tried |-> i]

process_with_claude_llm_first(query, emotions, client, outcomes) ==
    LET query_lower == Lower(query)
    IN  IF client THEN TryModels(1, outcomes, emotions)
        ELSE IF AnyKeyword(TimeKeywords, query_lower)
        THEN [response |-> [kind |-> "time", tag |-> ""], tried |-> 0]
        ELSE IF AnyKeyword(DateKeywords, query_lower)
        THEN [response |-> [kind |-> "date", tag |-> ""], tried |-> 0]
        ELSE [response |-> get_emotion_aware_response(emotions), tried |-> 0]

\* process_with_claude(query, emotions) -> the response, and the model calls made
process_with_claude(query, emotions, client, outcomes) ==
    LET query_lower == Lower(query)
    IN  IF AnyKeyword(TimeKeywords, query_lower)
        THEN [response |-> [kind |-> "time", tag |-> ""], tried |-> 0]
        ELSE IF AnyKeyword(DateKeywords, query_lower)
        THEN [response |-> [kind |-> "date", tag |-> ""], tried |-> 0]
        ELSE IF ~client
        THEN [response |-> get_emotion_aware_response(emotions), tried |-> 0]
        ELSE TryModels(1, outcomes, emotions)

(***************************************************************************)
(* What the microphone can hear                                            *)
(***************************************************************************)
\* "Hello"
U_hello ==
    <<"H", "e", "l", "l", "o">>

\* "May"
U_may ==
    <<"M", "a", "y">>

\* "may what time is it"
U_may_time ==
    <<"m", "a", "y", " ", "w", "h", "a", "t", " ", "t", "i", "m", "e", " ", "i", "s", " ", "i", "t">>

\* "may goodbye"
U_may_goodbye ==
    <<"m", "a", "y", " ", "g", "o", "o", "d", "b", "y", "e">>

\* "May hello"
U_may_hello ==
    <<"M", "a", "y", " ", "h", "e", "l", "l", "o">>

\* "Goodbye"
U_goodbye ==
    <<"G", "o", "o", "d", "b", "y", "e">>

\* "hello what time is it"
U_hello_time ==
    <<"h", "e", "l", "l", "o", " ", "w", "h", "a", "t", " ", "t", "i", "m", "e", " ", "i", "s", " ", "i", "t">>

\* "I'm so excited today"
U_excited ==
    <<"I", "'", "m", " ", "s", "o", " ", "e", "x", "c", "i", "t", "e", "d", " ", "t", "o", "d", "a", "y">>

\* "i feel sad"
U_sad ==
    <<"i", " ", "f", "e", "e", "l", " ", "s", "a", "d">>

Utterances ==
    {U_hello, U_may, U_may_time, U_may_goodbye, U_may_hello,
     U_goodbye, U_hello_time, U_excited, U_sad}

(***************************************************************************)
(* State                                                                   *)
(***************************************************************************)
VARIABLES
    pc,                   \* where the control flow of main() stands
    conversation_active,  \* self.conversation_active
    context,              \* self.context, oldest entry first
    appended,             \* history: every entry ever appended to self.context
    turn,                 \* the locals of the turn in progress (text, emotions, response)
    said,                 \* the last text handed to speak()
    sigint,               \* whether the user's interrupt reached a KeyboardInterrupt handler
    hume_api_key,         \* self.hume_api_key: "none", "placeholder" or "valid"
    anthropic_client,     \* whether self.anthropic_client is set
    esp32,                \* the ESP32Comm object: connected, and closed by close()
    now,                  \* wall-clock time in seconds since construction
    last_battery_check,   \* self.last_battery_check
    battery_thresholds,   \* self.battery_thresholds
    battery_log,          \* history: was the last reading above 20%; warnings of this low period
    reminders,            \* self.reminders
    due_reminders,        \* the local due_reminders of check_reminders
    disk,                 \* config.json
    history,              \* history: reminders on disk at startup, added, announced
    fn                    \* argument and results of a direct call of a text function

loopVars == <<pc, conversation_active, context, appended, turn, said, sigint>>
serviceVars == <<hume_api_key, anthropic_client>>
batteryVars == <<last_battery_check, battery_thresholds, battery_log>>
reminderVars == <<reminders, due_reminders, disk, history>>
vars == <<loopVars, serviceVars, esp32, now, batteryVars, reminderVars, fn>>

(***************************************************************************)
(* Bounds of the model                                                     *)
(***************************************************************************)
\* context appends in one run
MaxAppends == 6
\* clock ticks in one run
MaxTicks == 1
\* seconds per clock tick
TickSeconds == 300

(***************************************************************************)
(* Side display (may.py 87-146)                                            *)
(***************************************************************************)
\* what the link does to the sends of one step: deliver them, or fail with the
\* reconnect failing too
NetOutcomes == {"ok", "down"}

\* ESP32Comm.send: a no-op when not connected; a failed send reconnects at once
Send(e, net) ==
    IF ~e.connected THEN e
    ELSE IF net = "ok" THEN e
    ELSE [e EXCEPT !.connected = FALSE]

\* ESP32Comm.close
Close(e) == [connected |-> FALSE, closed |-> TRUE]

(***************************************************************************)
(* Context window (may.py 731-733, 837-839)                                *)
(***************************************************************************)
ContextLimit == 5

AppendContextNoEvict(ctx, entry) == Append(ctx, entry)

\* self.context.append(...); if len(self.context) > 5: self.context.pop(0)
AppendContext(ctx, entry) ==
    LET grown == Append(ctx, entry)
    IN  IF Len(grown) > ContextLimit THEN Tail(grown) ELSE grown

\* the entry of a responded turn, named by its ordinal among the appends
Entry == Len(appended) + 1

NoTurn == [text |-> None, query |-> None, wake_detected |-> FALSE, emotions |-> NoEmotions,
           response |-> NoResponse, hume_called |-> FALSE, models_tried |-> 0,
           interrupt_swallowed |-> FALSE]

(***************************************************************************)
(* Battery check (may.py 498-517)                                          *)
(***************************************************************************)
BatteryInterval == 300
Thresholds == <<20, 10, 5>>
NoBattery == 0 - 1
AllClear == [t \in {20, 10, 5} |-> FALSE]

\* a loop that takes the lowest threshold first
FirstCrossedLowest(percent, alerted) ==
    LET hits == {i \in 1..Len(Thresholds) : percent <= Thresholds[i] /\ ~alerted[Thresholds[i]]}
    IN  IF hits = {} THEN 0 ELSE Thresholds[CHOOSE i \in hits : \A j \in hits : i >= j]

\* a loop that ignores the alerted flags
FirstCrossedForgetful(percent, alerted) ==
    LET hits == {i \in 1..Len(Thresholds) : percent <= Thresholds[i]}
    IN  IF hits = {} THEN 0 ELSE Thresholds[CHOOSE i \in hits : \A j \in hits : i <= j]

\* the for-loop over battery_thresholds.items(): the first unalerted threshold
\* at or above the charge, 0 if none
FirstCrossed(percent, alerted) ==
    LET hits == {i \in 1..Len(Thresholds) : percent <= Thresholds[i] /\ ~alerted[Thresholds[i]]}
    IN  IF hits = {} THEN 0 ELSE Thresholds[CHOOSE i \in hits : \A j \in hits : i <= j]

\* a check with no throttle
check_battery_unthrottled(t, last, alerted, percent) ==
    IF percent = NoBattery
    THEN [last |-> t, alerted |-> alerted, warning |-> 0, read |-> FALSE]
    ELSE LET hit == FirstCrossed(percent, alerted)
         IN  IF hit # 0
             THEN [last |-> t, alerted |-> [alerted EXCEPT ![hit] = TRUE],
                   warning |-> hit, read |-> TRUE]
             ELSE [last |-> t,
                   alerted |-> IF percent > 20 THEN AllClear ELSE alerted,
                   warning |-> 0, read |-> TRUE]

\* a check that re-arms every threshold the charge is above
check_battery_rearm(t, last, alerted, percent) ==
    IF t - last < BatteryInterval
    THEN [last |-> last, alerted |-> alerted, warning |-> 0, read |-> FALSE]
    ELSE IF percent = NoBattery
    THEN [last |-> t, alerted |-> alerted, warning |-> 0, read |-> FALSE]
    ELSE LET hit == FirstCrossed(percent, alerted)
         IN  IF hit # 0
             THEN [last |-> t, alerted |-> [alerted EXCEPT ![hit] = TRUE],
                   warning |-> hit, read |-> TRUE]
             ELSE [last |-> t,
                   alerted |-> [th \in {20, 10, 5} |-> alerted[th] /\ percent <= th],
                   warning |-> 0, read |-> TRUE]

\* check_battery(): percent is psutil's reading, NoBattery when there is none
check_battery(t, last, alerted, percent) ==
    IF t - last < BatteryInterval
    THEN [last |-> last, alerted |-> alerted, warning |-> 0, read |-> FALSE]
    ELSE IF percent = NoBattery
    THEN [last |-> t, alerted |-> alerted, warning |-> 0, read |-> FALSE]
    ELSE LET hit == FirstCrossed(percent, alerted)
         IN  IF hit # 0
             THEN [last |-> t, alerted |-> [alerted EXCEPT ![hit] = TRUE],
                   warning |-> hit, read |-> TRUE]
             ELSE [last |-> t,
                   alerted |-> IF percent > 20 THEN AllClear ELSE alerted,
                   warning |-> 0, read |-> TRUE]

\* history of the low period: reset by a reading above 20%
LogBattery(log, percent, res) ==
    IF ~res.read THEN log
    ELSE [high |-> percent > 20,
          warned |-> IF percent > 20 THEN [t \in {20, 10, 5} |-> 0]
                     ELSE IF res.warning # 0
                          THEN [log.warned EXCEPT ![res.warning] = @ + 1]
                          ELSE log.warned]

\* no charge was read yet
NoRead == 0 - 1

\* history of the reads of one run: the time of the last one, and the charge
\* and warning of the latest reads, one per threshold
RecordRead(h, percent, res) ==
    IF ~res.read THEN h
    ELSE LET entry == [percent |-> percent, warning |-> res.warning]
             grown == Append(h.reads, entry)
         IN  [last_read |-> res.last,
              reads |-> IF Len(grown) > Len(Thresholds) THEN Tail(grown) ELSE grown]

NoReads == [last_read |-> NoRead, reads |-> <<>>]

(***************************************************************************)
(* Reminders and the persisted config (may.py 254-281, 469-496)            *)
(***************************************************************************)
\* a "time" field datetime.fromisoformat cannot parse
BadTime == 0 - 1

RECURSIVE RemoveFirst(_, _)
\* list.remove(x): the first element equal to x
RemoveFirst(seq, x) ==
    IF seq = <<>> THEN <<>>
    ELSE IF Head(seq) = x THEN Tail(seq)
    ELSE <<Head(seq)>> \o RemoveFirst(Tail(seq), x)

RECURSIVE ScanRemindersKeep(_, _, _, _)
ScanRemindersKeep(copy, active, due, t) ==
    IF copy = <<>> THEN [reminders |-> active, due |-> due, raised |-> FALSE]
    ELSE LET reminder == Head(copy)
         IN  IF reminder.time = BadTime
             THEN [reminders |-> active, due |-> due, raised |-> TRUE]
             ELSE IF t >= reminder.time
                  THEN ScanRemindersKeep(Tail(copy), active, Append(due, reminder), t)
                  ELSE ScanRemindersKeep(Tail(copy), active, due, t)

RECURSIVE ScanReminders(_, _, _, _)
\* the for-loop of check_reminders over self.reminders[:]; raised when a time
\* does not parse, which leaves the removals made so far in place
ScanReminders(copy, active, due, t) ==
    IF copy = <<>> THEN [reminders |-> active, due |-> due, raised |-> FALSE]
    ELSE LET reminder == Head(copy)
         IN  IF reminder.time = BadTime
             THEN [reminders |-> active, due |-> due, raised |-> TRUE]
             ELSE IF t >= reminder.time
                  THEN ScanReminders(Tail(copy), RemoveFirst(active, reminder),
                                     Append(due, reminder), t)
                  ELSE ScanReminders(Tail(copy), active, due, t)

\* save_config(): config.json rewritten with the session's reminders
save_config(d, rems) == [exists |-> TRUE, valid |-> TRUE, reminders |-> rems]

\* load_config(): self.reminders as it leaves it (set only when the file is read)
load_config(d) == IF d.exists /\ d.valid THEN d.reminders ELSE <<>>

\* __init__: load_config() at line 163, then `self.reminders = []` at line 229
InitReminders(d) == <<>>

NoHistory == [at_start |-> <<>>, added |-> <<>>, removed |-> <<>>, announced |-> <<>>]
DefaultDisk == [exists |-> TRUE, valid |-> TRUE, reminders |-> <<>>]

Count(seq, x) == Cardinality({i \in 1..Len(seq) : seq[i] = x})
Range(seq) == {seq[i] : i \in 1..Len(seq)}

(***************************************************************************)
(* The passive loop, the conversation loop and main() (may.py 678-733,     *)
(* 808-868).  One action per step between two suspension points.           *)
(***************************************************************************)
\* positions inside the try block of passive_listening's loop
InTry == {"p_reminders", "p_announce", "p_battery", "p_listen", "i_emotion", "i_respond",
          "i_speak", "c_enter", "c_listen", "c_goodbye", "c_emotion", "c_respond",
          "c_speak"}

\* positions of passive_listening outside that try block
OutsideTry == {"start", "p_sleep"}

\* positions at which a statement not guarded by an inner try can raise
FailPoints == InTry \ {"p_reminders", "p_announce"}

MaxTime == MaxTicks * TickSeconds

\* the blocking listen lets wall-clock time pass
Elapse == {dt \in {0, TickSeconds} : now + dt <= MaxTime}

\* what listen() can return: a transcribed text, or None
Heard == IF Len(appended) < MaxAppends THEN Utterances \cup {None} ELSE {None}

BatteryReadings == {NoBattery, 4, 8, 15, 20, 21, 60}

\* passive_listening, line 811: the startup prompt
PassiveStart ==
    /\ pc = "start"
    /\ \E net \in NetOutcomes : esp32' = Send(esp32, net)
    /\ said' = "ready"
    /\ pc' = "p_reminders"
    /\ UNCHANGED <<conversation_active, context, appended, turn, sigint, serviceVars,
                   now, batteryVars, reminderVars, fn>>

\* check_reminders, lines 482-492: collect and remove the due reminders, save
CheckReminders ==
    /\ pc = "p_reminders"
    /\ LET res == ScanReminders(reminders, reminders, <<>>, now)
       IN  /\ reminders' = res.reminders
           /\ due_reminders' = IF res.raised THEN <<>> ELSE res.due
           /\ disk' = IF ~res.raised /\ res.due # <<>>
                      THEN save_config(disk, res.reminders) ELSE disk
           /\ history' = [history EXCEPT !.removed = @ \o res.due]
           /\ pc' = IF ~res.raised /\ res.due # <<>> THEN "p_announce" ELSE "p_battery"
    /\ UNCHANGED <<conversation_active, context, appended, turn, said, sigint, serviceVars,
                   esp32, now, batteryVars, fn>>

\* check_reminders, lines 493-494: speak the next due reminder
AnnounceReminder ==
    /\ pc = "p_announce"
    /\ due_reminders # <<>>
    /\ \E net \in NetOutcomes : esp32' = Send(esp32, net)
    /\ said' = "reminder"
    /\ history' = [history EXCEPT !.announced = Append(@, Head(due_reminders))]
    /\ due_reminders' = Tail(due_reminders)
    /\ pc' = IF Tail(due_reminders) = <<>> THEN "p_battery" ELSE "p_announce"
    /\ UNCHANGED <<conversation_active, context, appended, turn, sigint, serviceVars,
                   now, batteryVars, reminders, disk, fn>>

\* passive_listening, lines 816-818: check_battery, and speak its warning
CheckBatteryStep(percent, net) ==
    /\ pc = "p_battery"
    /\ LET res == check_battery(now, last_battery_check, battery_thresholds, percent)
       IN  /\ last_battery_check' = res.last
           /\ battery_thresholds' = res.alerted
           /\ battery_log' = LogBattery(battery_log, percent, res)
           /\ IF res.warning # 0
              THEN said' = "battery" /\ esp32' = Send(esp32, net)
              ELSE UNCHANGED <<said, esp32>>
    /\ pc' = "p_listen"
    /\ UNCHANGED <<conversation_active, context, appended, turn, sigint, serviceVars,
                   now, reminderVars>>

PassiveCheckBattery ==
    /\ \E percent \in BatteryReadings, net \in NetOutcomes : CheckBatteryStep(percent, net)
    /\ UNCHANGED fn

\* passive_listening, lines 820-831: listen, test the wake word, split the query
PassiveListenWith(texts, elapse) ==
    /\ pc = "p_listen"
    /\ \E text \in texts, dt \in elapse, net \in NetOutcomes :
         LET wake == check_wake_word(text)
         IN  /\ now' = now + dt
             /\ esp32' = Send(esp32, net)
             /\ IF text = None \/ ~wake.detected
                THEN pc' = "p_reminders" /\ UNCHANGED turn
                ELSE IF Truthy(wake.query) /\ Len(Strip(wake.query)) > 0
                THEN /\ pc' = "i_emotion"
                     /\ turn' = [NoTurn EXCEPT !.text = text, !.query = wake.query,
                                               !.wake_detected = TRUE]
                ELSE /\ pc' = "c_enter"
                     /\ turn' = [NoTurn EXCEPT !.text = text, !.wake_detected = TRUE]
    /\ UNCHANGED <<conversation_active, context, appended, said, sigint, serviceVars,
                   batteryVars, reminderVars, fn>>

PassiveListen == PassiveListenWith(Heard, Elapse)

\* passive_listening, line 832: emotions of the inline query
InlineEmotion ==
    /\ pc = "i_emotion"
    /\ \E hume \in HumeOutcomes, net \in NetOutcomes :
         LET res == detect_emotions_fast(turn.query, hume_api_key, hume)
         IN  /\ turn' = [turn EXCEPT !.emotions = res.emotions, !.hume_called = res.called]
             /\ esp32' = IF res.emotions.source = "hume" THEN Send(esp32, net) ELSE esp32
    /\ pc' = "i_respond"
    /\ UNCHANGED <<conversation_active, context, appended, said, sigint, serviceVars,
                   now, batteryVars, reminderVars, fn>>

\* passive_listening, lines 833-835: the response to the inline query
InlineRespond ==
    /\ pc = "i_respond"
    /\ \E outcomes \in [1..Len(ModelsToTry) -> ModelOutcomes],
          net \in NetOutcomes :
         LET res == process_with_claude(turn.query, turn.emotions, anthropic_client,
                                        outcomes)
         IN  /\ turn' = [turn EXCEPT !.response = res.response, !.models_tried = res.tried]
             /\ esp32' = Send(esp32, net)
    /\ pc' = "i_speak"
    /\ UNCHANGED <<conversation_active, context, appended, said, sigint, serviceVars,
                   now, batteryVars, reminderVars, fn>>

InlineSpeakSkipsConversation ==
    /\ pc = "i_speak"
    /\ \E net \in NetOutcomes : esp32' = Send(esp32, net)
    /\ said' = "response"
    /\ context' = AppendContext(context, Entry)
    /\ appended' = Append(appended, Entry)
    /\ turn' = NoTurn
    /\ pc' = "p_reminders"
    /\ UNCHANGED <<conversation_active, sigint, serviceVars, now, batteryVars,
                   reminderVars, fn>>

\* passive_listening, lines 836-839: speak the response, append to the context
InlineSpeak ==
    /\ pc = "i_speak"
    /\ \E net \in NetOutcomes : esp32' = Send(esp32, net)
    /\ said' = "response"
    /\ context' = AppendContext(context, Entry)
    /\ appended' = Append(appended, Entry)
    /\ turn' = [NoTurn EXCEPT !.text = turn.text, !.wake_detected = TRUE]
    /\ pc' = "c_enter"
    /\ UNCHANGED <<conversation_active, sigint, serviceVars, now, batteryVars,
                   reminderVars, fn>>

\* conversation_mode, lines 680-682: enter, speak the opening prompt
ConvEnter ==
    /\ pc = "c_enter"
    /\ conversation_active' = TRUE
    /\ \E net \in NetOutcomes : esp32' = Send(esp32, net)
    /\ said' = "opening"
    /\ pc' = "c_listen"
    /\ UNCHANGED <<context, appended, turn, sigint, serviceVars, now, batteryVars,
                   reminderVars, fn>>

ConvListenIdleExit ==
    /\ pc = "c_listen"
    /\ \E text \in Heard, dt \in Elapse, net \in NetOutcomes :
         /\ now' = now + dt
         /\ esp32' = Send(esp32, net)
         /\ IF text = None /\ said = "reengage"
            THEN /\ turn' = NoTurn
                 /\ pc' = "p_reminders"
                 /\ UNCHANGED said
            ELSE IF text = None
            THEN /\ said' = "reengage"
                 /\ turn' = NoTurn
                 /\ pc' = "c_listen"
            ELSE IF check_termination(text)
            THEN /\ turn' = [NoTurn EXCEPT !.text = text]
                 /\ pc' = "c_goodbye"
                 /\ UNCHANGED said
            ELSE /\ turn' = [NoTurn EXCEPT !.text = text, !.query = text]
                 /\ pc' = "c_emotion"
                 /\ UNCHANGED said
    /\ UNCHANGED <<conversation_active, context, appended, sigint, serviceVars, batteryVars,
                   reminderVars, fn>>

ConvListenPollsReminders ==
    /\ pc = "c_listen"
    /\ \E text \in Heard, dt \in Elapse, net \in NetOutcomes :
         /\ now' = now + dt
         /\ esp32' = Send(esp32, net)
         /\ IF text = None
            THEN /\ said' = "reengage"
                 /\ turn' = NoTurn
                 /\ pc' = "c_listen"
                 /\ LET res == ScanReminders(reminders, reminders, <<>>, now)
                    IN  /\ reminders' = res.reminders
                        /\ history' = [history EXCEPT !.removed = @ \o res.due,
                                                      !.announced = @ \o res.due]
            ELSE IF check_termination(text)
            THEN /\ turn' = [NoTurn EXCEPT !.text = text]
                 /\ pc' = "c_goodbye"
                 /\ UNCHANGED <<said, reminders, history>>
            ELSE /\ turn' = [NoTurn EXCEPT !.text = text, !.query = text]
                 /\ pc' = "c_emotion"
                 /\ UNCHANGED <<said, reminders, history>>
    /\ UNCHANGED <<conversation_active, context, appended, sigint, serviceVars, batteryVars,
                   due_reminders, disk, fn>>

ConvListenNoTermination ==
    /\ pc = "c_listen"
    /\ \E text \in Heard, dt \in Elapse, net \in NetOutcomes :
         /\ now' = now + dt
         /\ esp32' = Send(esp32, net)
         /\ IF text = None
            THEN /\ said' = "reengage"
                 /\ turn' = NoTurn
                 /\ pc' = "c_listen"
            ELSE /\ turn' = [NoTurn EXCEPT !.text = text, !.query = text]
                 /\ pc' = "c_emotion"
                 /\ UNCHANGED said
    /\ UNCHANGED <<conversation_active, context, appended, sigint, serviceVars, batteryVars,
                   reminderVars, fn>>

\* conversation_mode, lines 685-706: listen; timeout, termination or a turn
ConvListen ==
    /\ pc = "c_listen"
    /\ \E text \in Heard, dt \in Elapse, net \in NetOutcomes :
         /\ now' = now + dt
         /\ esp32' = Send(esp32, net)
         /\ IF text = None
            THEN /\ said' = "reengage"
                 /\ turn' = NoTurn
                 /\ pc' = "c_listen"
            ELSE IF check_termination(text)
            THEN /\ turn' = [NoTurn EXCEPT !.text = text]
                 /\ pc' = "c_goodbye"
                 /\ UNCHANGED said
            ELSE /\ turn' = [NoTurn EXCEPT !.text = text, !.query = text]
                 /\ pc' = "c_emotion"
                 /\ UNCHANGED said
    /\ UNCHANGED <<conversation_active, context, appended, sigint, serviceVars, batteryVars,
                   reminderVars, fn>>

ConvGoodbyeAppends ==
    /\ pc = "c_goodbye"
    /\ \E net \in NetOutcomes : esp32' = Send(esp32, net)
    /\ said' = "goodbye"
    /\ conversation_active' = FALSE
    /\ context' = AppendContext(context, Entry)
    /\ turn' = NoTurn
    /\ pc' = "p_reminders"
    /\ UNCHANGED <<appended, sigint, serviceVars, now, batteryVars, reminderVars, fn>>

\* conversation_mode, lines 700-706: the farewell, then the flag is cleared and
\* the loop is left; control is back in the passive loop
ConvGoodbye ==
    /\ pc = "c_goodbye"
    /\ \E net \in NetOutcomes : esp32' = Send(esp32, net)
    /\ said' = "goodbye"
    /\ conversation_active' = FALSE
    /\ turn' = NoTurn
    /\ pc' = "p_reminders"
    /\ UNCHANGED <<context, appended, sigint, serviceVars, now, batteryVars, reminderVars, fn>>

\* conversation_mode, lines 708-710: emotions of the utterance
ConvEmotion ==
    /\ pc = "c_emotion"
    /\ \E hume \in HumeOutcomes, net \in NetOutcomes :
         LET res == detect_emotions_fast(turn.text, hume_api_key, hume)
         IN  /\ turn' = [turn EXCEPT !.emotions = res.emotions, !.hume_called = res.called]
             /\ esp32' = IF res.emotions.source = "hume" THEN Send(esp32, net) ELSE esp32
    /\ pc' = "c_respond"
    /\ UNCHANGED <<conversation_active, context, appended, said, sigint, serviceVars,
                   now, batteryVars, reminderVars, fn>>

ConvRespondModelFirst ==
    /\ pc = "c_respond"
    /\ \E outcomes \in [1..Len(ModelsToTry) -> ModelOutcomes],
          net \in NetOutcomes :
         LET casual_response == get_casual_response(turn.text)
             res == IF casual_response # NoResponse /\ ~anthropic_client
                    THEN [response |-> casual_response, tried |-> 0]
                    ELSE process_with_claude(turn.text, turn.emotions, anthropic_client,
                                             outcomes)
         IN  /\ turn' = [turn EXCEPT !.response = res.response, !.models_tried = res.tried]
             /\ esp32' = Send(esp32, net)
    /\ pc' = "c_speak"
    /\ UNCHANGED <<conversation_active, context, appended, said, sigint, serviceVars,
                   now, batteryVars, reminderVars, fn>>

\* conversation_mode, lines 712-726: the casual reply, else process_with_claude
ConvRespond ==
    /\ pc = "c_respond"
    /\ \E outcomes \in [1..Len(ModelsToTry) -> ModelOutcomes],
          net \in NetOutcomes :
         LET casual_response == get_casual_response(turn.text)
             res == IF casual_response # NoResponse
                    THEN [response |-> casual_response, tried |-> 0]
                    ELSE process_with_claude(turn.text, turn.emotions, anthropic_client,
                                             outcomes)
         IN  /\ turn' = [turn EXCEPT !.response = res.response, !.models_tried = res.tried]
             /\ esp32' = Send(esp32, net)
    /\ pc' = "c_speak"
    /\ UNCHANGED <<conversation_active, context, appended, said, sigint, serviceVars,
                   now, batteryVars, reminderVars, fn>>

\* conversation_mode, lines 728-733: speak the response, append to the context
ConvSpeak ==
    /\ pc = "c_speak"
    /\ \E net \in NetOutcomes : esp32' = Send(esp32, net)
    /\ said' = "response"
    /\ context' = AppendContext(context, Entry)
    /\ appended' = Append(appended, Entry)
    /\ turn' = NoTurn
    /\ pc' = "c_listen"
    /\ UNCHANGED <<conversation_active, sigint, serviceVars, now, batteryVars,
                   reminderVars, fn>>

FailEscapes ==
    /\ pc \in FailPoints
    /\ pc' = "m_finally"
    /\ turn' = NoTurn
    /\ UNCHANGED <<conversation_active, context, appended, said, sigint, serviceVars,
                   esp32, now, batteryVars, reminderVars, fn>>

\* an exception raised inside the try block: passive_listening, lines 850-851
Fail ==
    /\ pc \in FailPoints
    /\ pc' = "p_sleep"
    /\ turn' = NoTurn
    /\ UNCHANGED <<conversation_active, context, appended, said, sigint, serviceVars,
                   esp32, now, batteryVars, reminderVars, fn>>

\* passive_listening, line 852: asyncio.sleep(1), then the next iteration
PassiveSleep ==
    /\ pc = "p_sleep"
    /\ pc' = "p_reminders"
    /\ UNCHANGED <<conversation_active, context, appended, turn, said, sigint, serviceVars,
                   esp32, now, batteryVars, reminderVars, fn>>

\* the user's interrupt, raised as KeyboardInterrupt where the control flow
\* stands: caught at line 844 inside the try block, at line 860 outside it
Interrupt ==
    /\ ~sigint
    /\ pc \in InTry \cup OutsideTry
    /\ sigint' = TRUE
    /\ pc' = IF pc \in InTry THEN "p_farewell" ELSE "m_farewell"
    /\ turn' = NoTurn
    /\ due_reminders' = <<>>
    /\ UNCHANGED <<conversation_active, context, appended, said, serviceVars, esp32, now,
                   batteryVars, reminders, disk, history, fn>>

\* the user's interrupt raised while fallback_sentiment runs TextBlob: its bare
\* `except:` (lines 529-530) catches KeyboardInterrupt too and returns "neutral";
\* the emotion step completes with Calm and the run goes on
InterruptSwallowed ==
    /\ ~sigint
    /\ pc \in {"i_emotion", "c_emotion"}
    /\ turn' = [turn EXCEPT !.emotions = FallbackEmotionOf(PolarityError),
                            !.hume_called = ~HumeUnconfigured(hume_api_key),
                            !.interrupt_swallowed = TRUE]
    /\ pc' = IF pc = "i_emotion" THEN "i_respond" ELSE "c_respond"
    /\ UNCHANGED <<conversation_active, context, appended, said, sigint, serviceVars, esp32,
                   now, batteryVars, reminderVars, fn>>

\* passive_listening, lines 845-849: farewell, close the display, leave the loop
LoopFarewell ==
    /\ pc = "p_farewell"
    /\ \E net \in NetOutcomes : esp32' = Close(Send(esp32, net))
    /\ said' = "farewell"
    /\ pc' = "m_finally"
    /\ UNCHANGED <<conversation_active, context, appended, turn, sigint, serviceVars,
                   now, batteryVars, reminderVars, fn>>

\* main, lines 860-862: the interrupt reached main
MainFarewell ==
    /\ pc = "m_farewell"
    /\ \E net \in NetOutcomes : esp32' = Send(esp32, net)
    /\ said' = "shutdown"
    /\ pc' = "m_finally"
    /\ UNCHANGED <<conversation_active, context, appended, turn, sigint, serviceVars,
                   now, batteryVars, reminderVars, fn>>

\* main, lines 866-868: finally, close the display; the process exits
MainFinally ==
    /\ pc = "m_finally"
    /\ esp32' = Close(esp32)
    /\ pc' = "exited"
    /\ UNCHANGED <<conversation_active, context, appended, turn, said, sigint, serviceVars,
                   now, batteryVars, reminderVars, fn>>

NoCall == [text |-> None, wake |-> [detected |-> FALSE, query |-> None], term |-> FALSE,
           called |-> {}]

\* the state once MayAssistant() is constructed and main() enters passive_listening
Init ==
    /\ pc = "start"
    /\ conversation_active = FALSE
    /\ context = <<>>
    /\ appended = <<>>
    /\ turn = NoTurn
    /\ said = "nothing"
    /\ sigint = FALSE
    /\ hume_api_key \in {"none", "valid"}
    /\ anthropic_client \in BOOLEAN
    /\ esp32 \in {[connected |-> c, closed |-> FALSE] : c \in BOOLEAN}
    /\ now = 0
    /\ last_battery_check = 0
    /\ battery_thresholds = AllClear
    /\ battery_log = [high |-> FALSE, warned |-> [t \in {20, 10, 5} |-> 0]]
    /\ reminders = <<>>
    /\ due_reminders = <<>>
    /\ disk = DefaultDisk
    /\ history = NoHistory
    /\ fn = NoCall

Next ==
    \/ PassiveStart
    \/ CheckReminders
    \/ PassiveCheckBattery
    \/ PassiveListen
    \/ InlineEmotion
    \/ InlineRespond
    \/ InlineSpeak
    \/ ConvEnter
    \/ ConvListen
    \/ ConvGoodbye
    \/ ConvEmotion
    \/ ConvRespond
    \/ ConvSpeak
    \/ Fail
    \/ PassiveSleep
    \/ Interrupt
    \/ InterruptSwallowed
    \/ LoopFarewell
    \/ MainFarewell
    \/ MainFinally

Spec == Init /\ [][Next]_vars

(***************************************************************************)
(* The passive loop with nobody speaking: reminders come due, the battery  *)
(* drains                                                                  *)
(***************************************************************************)
\* set_reminder calls in one run
MaxReminders == 2
\* clock ticks in one run of the idle loop
MaxIdleTicks == 6

ReminderTexts == {"pill", "call"}

\* the `when` of set_reminder, in minutes
ReminderDelays == {0, 5}

\* config.json as the process finds it: absent, corrupt, or a saved config
DiskStates ==
    {[exists |-> FALSE, valid |-> FALSE, reminders |-> <<>>],
     [exists |-> TRUE, valid |-> FALSE, reminders |-> <<>>],
     DefaultDisk,
     [exists |-> TRUE, valid |-> TRUE,
      reminders |-> <<[text |-> "pill", time |-> 0]>>],
     [exists |-> TRUE, valid |-> TRUE,
      reminders |-> <<[text |-> "pill", time |-> 0], [text |-> "call", time |-> BadTime]>>]}

\* the save_config() of load_config (line 267), made when config.json is absent:
\* __init__ has not set self.reminders yet (line 229), so line 275 raises
\* AttributeError, the handler at 279 logs it, and nothing is written
StartupSave(d) == d

\* config.json once load_config() has returned: written only on the absent
\* branch; a file that does not parse is left as it is (lines 268-271)
ConfigAfterLoad(d) == IF d.exists THEN d ELSE StartupSave(d)

\* MayAssistant.__init__, lines 161-229: load the config, then reset the reminders
Boot ==
    /\ pc = "boot"
    /\ reminders' = InitReminders(disk)
    /\ disk' = ConfigAfterLoad(disk)
    /\ pc' = "start"
    /\ UNCHANGED <<conversation_active, context, appended, turn, said, sigint, serviceVars,
                   esp32, now, batteryVars, due_reminders, history, fn>>

\* set_reminder(reminder_text, when)
SetReminder ==
    /\ pc = "p_listen"
    /\ Len(history.added) < MaxReminders
    /\ \E reminder_text \in ReminderTexts, when \in ReminderDelays :
         LET reminder == [text |-> reminder_text, time |-> now + when * 60]
         IN  /\ reminders' = Append(reminders, reminder)
             /\ disk' = save_config(disk, Append(reminders, reminder))
             /\ history' = [history EXCEPT !.added = Append(@, reminder)]
    /\ UNCHANGED <<loopVars, serviceVars, esp32, now, batteryVars, due_reminders, fn>>

\* a listen that hears nothing while the clock of the reminder runs
IdleListen == PassiveListenWith({None}, Elapse)

\* a listen that hears nothing while the battery drains
LongIdleListen ==
    PassiveListenWith({None}, {dt \in {0, TickSeconds \div 2, TickSeconds} :
                                  now + dt <= MaxIdleTicks * TickSeconds})

\* the battery check of an idle iteration, its reads recorded
IdleCheckBattery ==
    \E percent \in BatteryReadings, net \in NetOutcomes :
        /\ CheckBatteryStep(percent, net)
        /\ fn' = RecordRead(fn, percent,
                            check_battery(now, last_battery_check, battery_thresholds,
                                          percent))

InitReminderRun ==
    /\ pc = "boot"
    /\ conversation_active = FALSE
    /\ context = <<>>
    /\ appended = <<>>
    /\ turn = NoTurn
    /\ said = "nothing"
    /\ sigint = FALSE
    /\ hume_api_key = "none"
    /\ anthropic_client = FALSE
    /\ esp32 = [connected |-> FALSE, closed |-> FALSE]
    /\ now = 0
    /\ last_battery_check = 0
    /\ battery_thresholds = AllClear
    /\ battery_log = [high |-> FALSE, warned |-> [t \in {20, 10, 5} |-> 0]]
    /\ reminders = <<>>
    /\ due_reminders = <<>>
    /\ disk \in DiskStates
    /\ history = [NoHistory EXCEPT !.at_start = load_config(disk)]
    /\ fn = NoCall

NextReminderRun ==
    \/ Boot
    \/ PassiveStart
    \/ SetReminder
    \/ CheckReminders
    \/ AnnounceReminder
    \/ PassiveCheckBattery
    \/ IdleListen
    \/ Interrupt
    \/ LoopFarewell
    \/ MainFarewell
    \/ MainFinally

SpecReminders == InitReminderRun /\ [][NextReminderRun]_vars

InitBatteryRun ==
    /\ pc = "start"
    /\ conversation_active = FALSE
    /\ context = <<>>
    /\ appended = <<>>
    /\ turn = NoTurn
    /\ said = "nothing"
    /\ sigint = FALSE
    /\ hume_api_key = "none"
    /\ anthropic_client = FALSE
    /\ esp32 = [connected |-> FALSE, closed |-> FALSE]
    /\ now = 0
    /\ last_battery_check = 0
    /\ battery_thresholds = AllClear
    /\ battery_log = [high |-> FALSE, warned |-> [t \in {20, 10, 5} |-> 0]]
    /\ reminders = <<>>
    /\ due_reminders = <<>>
    /\ disk = DefaultDisk
    /\ history = NoHistory
    /\ fn = NoReads

NextBatteryRun ==
    \/ PassiveStart
    \/ CheckReminders
    \/ IdleCheckBattery
    \/ LongIdleListen

SpecBattery == InitBatteryRun /\ [][NextBatteryRun]_vars

(***************************************************************************)
(* The polling of reminders and battery by the loop (may.py 813-842): a    *)
(* run with reminders set, wake words and conversations, no failures       *)
(***************************************************************************)
InitPolling ==
    /\ pc = "start"
    /\ conversation_active = FALSE
    /\ context = <<>>
    /\ appended = <<>>
    /\ turn = NoTurn
    /\ said = "nothing"
    /\ sigint = FALSE
    /\ hume_api_key = "none"
    /\ anthropic_client = FALSE
    /\ esp32 = [connected |-> FALSE, closed |-> FALSE]
    /\ now = 0
    /\ last_battery_check = 0
    /\ battery_thresholds = AllClear
    /\ battery_log = [high |-> FALSE, warned |-> [t \in {20, 10, 5} |-> 0]]
    /\ reminders = <<>>
    /\ due_reminders = <<>>
    /\ disk = DefaultDisk
    /\ history = NoHistory
    /\ fn = NoCall

\* set_reminder, called once in the run
PollSetReminder == SetReminder /\ history.added = <<>>

\* the battery check of an iteration, the charge low or high
PollCheckBattery ==
    /\ \E percent \in {15, 60}, net \in NetOutcomes : CheckBatteryStep(percent, net)
    /\ UNCHANGED fn

\* the wake-word listen: nothing heard, no wake word, or the wake word alone
PollListen == PassiveListenWith({None, U_hello, U_may}, Elapse)

\* the listen of the conversation loop: a timeout, a casual phrase, a
\* termination phrase
PollConvListen == ConvListen /\ turn'.text \in {None, U_hello, U_goodbye}

NextPolling ==
    \/ PassiveStart
    \/ PollSetReminder
    \/ CheckReminders
    \/ AnnounceReminder
    \/ PollCheckBattery
    \/ PollListen
    \/ ConvEnter
    \/ PollConvListen
    \/ ConvGoodbye
    \/ ConvEmotion
    \/ ConvRespond
    \/ ConvSpeak

SpecPolling == InitPolling /\ [][NextPolling]_vars

(***************************************************************************)
(* Direct calls of check_wake_word and check_termination                   *)
(***************************************************************************)
\* longest text put before and after a phrase
MaxAffix == 1

AffixAlphabet == {" ", "x"}

RECURSIVE SeqsUpTo(_, _)
SeqsUpTo(S, n) ==
    IF n = 0 THEN {<<>>}
    ELSE LET shorter == SeqsUpTo(S, n - 1)
         IN  shorter \cup {Append(t, c) : t \in shorter, c \in S}

\* "", "may", "May", "MAYBE", "ma y", "may hi may", "dismay", "bye", "BYE", "by",
\* "Goodbye", "see you later", "talk to you later", "Stop Listening",
\* "go to sleep", "sleep now", "sleepnow"
Pieces ==
    {<<>>,
     <<"m", "a", "y">>,
     <<"M", "a", "y">>,
     <<"M", "A", "Y", "B", "E">>,
     <<"m", "a", " ", "y">>,
     <<"m", "a", "y", " ", "h", "i", " ", "m", "a", "y">>,
     <<"d", "i", "s", "m", "a", "y">>,
     <<"b", "y", "e">>,
     <<"B", "Y", "E">>,
     <<"b", "y">>,
     <<"G", "o", "o", "d", "b", "y", "e">>,
     <<"s", "e", "e", " ", "y", "o", "u", " ", "l", "a", "t", "e", "r">>,
     <<"t", "a", "l", "k", " ", "t", "o", " ", "y", "o", "u", " ", "l", "a", "t", "e", "r">>,
     <<"S", "t", "o", "p", " ", "L", "i", "s", "t", "e", "n", "i", "n", "g">>,
     <<"g", "o", " ", "t", "o", " ", "s", "l", "e", "e", "p">>,
     <<"s", "l", "e", "e", "p", " ", "n", "o", "w">>,
     <<"s", "l", "e", "e", "p", "n", "o", "w">>}

Texts ==
    {None} \cup {pre \o mid \o post : pre \in SeqsUpTo(AffixAlphabet, MaxAffix),
                                      mid \in Pieces,
                                      post \in SeqsUpTo(AffixAlphabet, MaxAffix)}

CallCheckWakeWord ==
    /\ "check_wake_word" \notin fn.called
    /\ fn' = [fn EXCEPT !.wake = check_wake_word(fn.text),
                        !.called = @ \cup {"check_wake_word"}]
    /\ UNCHANGED <<loopVars, serviceVars, esp32, now, batteryVars, reminderVars>>

CallCheckTermination ==
    /\ "check_termination" \notin fn.called
    /\ fn' = [fn EXCEPT !.term = check_termination(fn.text),
                        !.called = @ \cup {"check_termination"}]
    /\ UNCHANGED <<loopVars, serviceVars, esp32, now, batteryVars, reminderVars>>

InitText ==
    /\ pc = "call"
    /\ conversation_active = FALSE
    /\ context = <<>>
    /\ appended = <<>>
    /\ turn = NoTurn
    /\ said = "nothing"
    /\ sigint = FALSE
    /\ hume_api_key = "none"
    /\ anthropic_client = FALSE
    /\ esp32 = [connected |-> FALSE, closed |-> FALSE]
    /\ now = 0
    /\ last_battery_check = 0
    /\ battery_thresholds = AllClear
    /\ battery_log = [high |-> FALSE, warned |-> [t \in {20, 10, 5} |-> 0]]
    /\ reminders = <<>>
    /\ due_reminders = <<>>
    /\ disk = DefaultDisk
    /\ history = NoHistory
    /\ fn \in {[NoCall EXCEPT !.text = text] : text \in Texts}

NextText == CallCheckWakeWord \/ CallCheckTermination

SpecText == InitText /\ [][NextText]_vars

(***************************************************************************)
(* Direct calls of detect_emotions_fast (may.py 519-626)                   *)
(***************************************************************************)
\* calls on one text
MaxRuns == 2

\* polarities TextBlob can give, in hundredths, and its failure
Polarities ==
    {0 - 100, 0 - 50, 0 - 31, 0 - 30, 0 - 29, 0, 29, 30, 31, 49, 100, PolarityError}

\* self.hume_api_key: unset, the "YOUR..." placeholder, or a key
HumeKeys == {"none", "placeholder", "valid"}

\* one call of detect_emotions_fast on the text, the service answering as it likes
CallDetectEmotions ==
    /\ fn.runs < MaxRuns
    /\ \E reply \in HumeReplies :
         LET res == DetectEmotions(fn.polarity, fn.key, HumeResult(reply))
         IN  fn' = [fn EXCEPT !.runs = @ + 1,
                              !.reply = reply,
                              !.emotions = res.emotions,
                              !.called = res.called,
                              !.failed = Append(@, HumeUnconfigured(fn.key)
                                                   \/ ~HumeResult(reply).ok),
                              !.first = IF fn.runs = 0 THEN res.emotions ELSE @]
    /\ UNCHANGED <<loopVars, serviceVars, esp32, now, batteryVars, reminderVars>>

InitEmotion ==
    /\ pc = "call"
    /\ conversation_active = FALSE
    /\ context = <<>>
    /\ appended = <<>>
    /\ turn = NoTurn
    /\ said = "nothing"
    /\ sigint = FALSE
    /\ hume_api_key = "none"
    /\ anthropic_client = FALSE
    /\ esp32 = [connected |-> FALSE, closed |-> FALSE]
    /\ now = 0
    /\ last_battery_check = 0
    /\ battery_thresholds = AllClear
    /\ battery_log = [high |-> FALSE, warned |-> [t \in {20, 10, 5} |-> 0]]
    /\ reminders = <<>>
    /\ due_reminders = <<>>
    /\ disk = DefaultDisk
    /\ history = NoHistory
    /\ fn \in {[polarity |-> p, key |-> k, runs |-> 0,
                 reply |-> [net |-> "ok", post_status |-> 200, job_id |-> TRUE,
                            get_status |-> 200, payload |-> "emotions"],
                 emotions |-> NoEmotions, called |-> FALSE, failed |-> <<>>,
                 first |-> NoEmotions] : p \in Polarities, k \in HumeKeys}

NextEmotion == CallDetectEmotions

SpecEmotion == InitEmotion /\ [][NextEmotion]_vars

(***************************************************************************)
(* The display link on its own (may.py 87-146): the ESP32Comm object, the  *)
(* device and the TCP connection between them                              *)
(***************************************************************************)
\* send calls in one run
MaxSends == 6

\* ESP32Comm.connect(): connected iff the device answers; one more attempt
ESP32Comm_connect(e, wire) ==
    [e |-> [e EXCEPT !.connected = (wire.link = "up")],
     wire |-> [wire EXCEPT !.socket_ok = (wire.link = "up"), !.attempts = @ + 1]]

\* ESP32Comm.send(): returns at once when not connected; sendall on a dead
\* connection raises, and the handler clears the flag and calls connect()
ESP32Comm_send(e, wire) ==
    IF ~e.connected
    THEN [e |-> e, wire |-> [wire EXCEPT !.sends = @ + 1]]
    ELSE IF wire.socket_ok
    THEN [e |-> e, wire |-> [wire EXCEPT !.sends = @ + 1, !.delivered = @ + 1]]
    ELSE ESP32Comm_connect([e EXCEPT !.connected = FALSE],
                           [wire EXCEPT !.sends = @ + 1])

\* ESP32Comm.__init__: the first connect()
DisplayConnect ==
    /\ pc = "new"
    /\ LET res == ESP32Comm_connect(esp32, fn)
       IN  esp32' = res.e /\ fn' = res.wire
    /\ pc' = "run"
    /\ UNCHANGED <<conversation_active, context, appended, turn, said, sigint, serviceVars,
                   now, batteryVars, reminderVars>>

\* any of send_listening, send_input, send_response, send_speaking, send_ready
DisplaySend ==
    /\ pc = "run"
    /\ fn.sends < MaxSends
    /\ LET res == ESP32Comm_send(esp32, fn)
       IN  esp32' = res.e /\ fn' = res.wire
    /\ UNCHANGED <<loopVars, serviceVars, now, batteryVars, reminderVars>>

\* the device goes away: the established connection is dead from now on
LinkDown ==
    /\ fn.link = "up"
    /\ fn' = [fn EXCEPT !.link = "down", !.socket_ok = FALSE]
    /\ UNCHANGED <<loopVars, serviceVars, esp32, now, batteryVars, reminderVars>>

\* the device is reachable again; a connection that died stays dead
LinkUp ==
    /\ fn.link = "down"
    /\ fn' = [fn EXCEPT !.link = "up"]
    /\ UNCHANGED <<loopVars, serviceVars, esp32, now, batteryVars, reminderVars>>

InitDisplay ==
    /\ pc = "new"
    /\ conversation_active = FALSE
    /\ context = <<>>
    /\ appended = <<>>
    /\ turn = NoTurn
    /\ said = "nothing"
    /\ sigint = FALSE
    /\ hume_api_key = "none"
    /\ anthropic_client = FALSE
    /\ esp32 = [connected |-> FALSE, closed |-> FALSE]
    /\ now = 0
    /\ last_battery_check = 0
    /\ battery_thresholds = AllClear
    /\ battery_log = [high |-> FALSE, warned |-> [t \in {20, 10, 5} |-> 0]]
    /\ reminders = <<>>
    /\ due_reminders = <<>>
    /\ disk = DefaultDisk
    /\ history = NoHistory
    /\ fn \in {[link |-> l, socket_ok |-> FALSE, sends |-> 0, delivered |-> 0,
                 attempts |-> 0] : l \in {"up", "down"}}

NextDisplay ==
    \/ DisplayConnect
    \/ DisplaySend
    \/ LinkDown
    \/ LinkUp

SpecDisplay == InitDisplay /\ [][NextDisplay]_vars

(***************************************************************************)
(* The output side of a responded turn (may.py 323-393, 725-733): the      *)
(* reply mirrored to the display, spoken, and appended to the context      *)
(***************************************************************************)
\* responded turns in one run
MaxTurns == 2

\* ESP32Comm.send(message_type, ...): the call is logged when it gets past the
\* connected test, with whether sendall delivered it
SendMessage(e, wire, message_type) ==
    LET res == ESP32Comm_send(e, wire)
    IN  [e |-> res.e,
         wire |-> IF e.connected
                  THEN [res.wire EXCEPT !.log = Append(@, [type |-> message_type,
                                                           ok |-> wire.socket_ok])]
                  ELSE res.wire]

\* a response is ready: conversation_mode, lines 721-723
TurnBegin ==
    /\ pc = "run"
    /\ Len(appended) < MaxTurns
    /\ fn' = [fn EXCEPT !.log = <<>>]
    /\ pc' = "t_response"
    /\ UNCHANGED <<conversation_active, context, appended, turn, said, sigint, serviceVars,
                   esp32, now, batteryVars, reminderVars>>

TurnSendResponseRaises ==
    /\ pc = "t_response"
    /\ LET res == SendMessage(esp32, fn, "RESPONSE")
       IN  /\ esp32' = res.e
           /\ fn' = res.wire
           /\ pc' = IF esp32.connected /\ ~fn.socket_ok THEN "run" ELSE "t_speak"
    /\ UNCHANGED <<conversation_active, context, appended, turn, said, sigint, serviceVars,
                   now, batteryVars, reminderVars>>

\* conversation_mode, lines 725-726: self.esp32.send_response(response)
TurnSendResponse ==
    /\ pc = "t_response"
    /\ LET res == SendMessage(esp32, fn, "RESPONSE")
       IN  esp32' = res.e /\ fn' = res.wire
    /\ pc' = "t_speak"
    /\ UNCHANGED <<conversation_active, context, appended, turn, said, sigint, serviceVars,
                   now, batteryVars, reminderVars>>

\* speak, lines 325-336: send_speaking; with no ElevenLabs client the text is
\* printed and speak returns; else is_speaking is set and the text printed
SpeakStart ==
    /\ pc = "t_speak"
    /\ LET res == SendMessage(esp32, fn, "SPEAKING")
       IN  /\ esp32' = res.e
           /\ fn' = [res.wire EXCEPT !.is_speaking = (fn.tts = "client")]
    /\ said' = "response"
    /\ pc' = IF fn.tts = "client" THEN "t_play" ELSE "t_append"
    /\ UNCHANGED <<conversation_active, context, appended, turn, sigint, serviceVars,
                   now, batteryVars, reminderVars>>

\* speak, lines 338-381: synthesis and playback succeed, is_speaking is
\* cleared and READY is sent
SpeakPlayed ==
    /\ pc = "t_play"
    /\ LET res == SendMessage(esp32, [fn EXCEPT !.is_speaking = FALSE], "READY")
       IN  esp32' = res.e /\ fn' = res.wire
    /\ pc' = "t_append"
    /\ UNCHANGED <<conversation_active, context, appended, turn, said, sigint, serviceVars,
                   now, batteryVars, reminderVars>>

\* speak, lines 383-393: synthesis or playback raised; is_speaking is cleared
SpeakFailed ==
    /\ pc = "t_play"
    /\ fn' = [fn EXCEPT !.is_speaking = FALSE]
    /\ pc' = "t_append"
    /\ UNCHANGED <<conversation_active, context, appended, turn, said, sigint, serviceVars,
                   esp32, now, batteryVars, reminderVars>>

\* conversation_mode, lines 731-733: the pair goes into the context
TurnAppend ==
    /\ pc = "t_append"
    /\ context' = AppendContext(context, Entry)
    /\ appended' = Append(appended, Entry)
    /\ pc' = "run"
    /\ UNCHANGED <<conversation_active, turn, said, sigint, serviceVars, esp32, now,
                   batteryVars, reminderVars, fn>>

InitOutput ==
    /\ pc = "new"
    /\ conversation_active = TRUE
    /\ context = <<>>
    /\ appended = <<>>
    /\ turn = NoTurn
    /\ said = "nothing"
    /\ sigint = FALSE
    /\ hume_api_key = "none"
    /\ anthropic_client = FALSE
    /\ esp32 = [connected |-> FALSE, closed |-> FALSE]
    /\ now = 0
    /\ last_battery_check = 0
    /\ battery_thresholds = AllClear
    /\ battery_log = [high |-> FALSE, warned |-> [t \in {20, 10, 5} |-> 0]]
    /\ reminders = <<>>
    /\ due_reminders = <<>>
    /\ disk = DefaultDisk
    /\ history = NoHistory
    /\ fn \in {[link |-> l, socket_ok |-> FALSE, sends |-> 0, delivered |-> 0,
                 attempts |-> 0, log |-> <<>>, is_speaking |-> FALSE, tts |-> c] :
                    l \in {"up", "down"}, c \in {"none", "client"}}

NextOutput ==
    \/ DisplayConnect
    \/ TurnBegin
    \/ TurnSendResponse
    \/ SpeakStart
    \/ SpeakPlayed
    \/ SpeakFailed
    \/ TurnAppend
    \/ LinkDown
    \/ LinkUp

SpecOutput == InitOutput /\ [][NextOutput]_vars

(***************************************************************************)
(* Properties                                                              *)
(***************************************************************************)
Max(a, b) == IF a >= b THEN a ELSE b

\* C1: after any sequence of appends, by the inline-query path and by the
\* conversation loop, the context window holds at most 5 entries and equals
\* the last min(n,5) appended entries in append order (oldest evicted first).
ContextIsLastFive ==
    /\ Len(context) <= 5
    /\ context = SubSeq(appended, Max(1, Len(appended) - 4), Len(appended))

\* an inline-query append has just evicted the oldest entry of a full window
ContextEvictedWitness ==
    /\ pc = "c_enter"
    /\ said = "response"
    /\ Len(appended) >= 6
    /\ Len(context) = 5
    /\ Head(context) = Len(appended) - 4

\* C2: once a reminder check is over, every reminder it removed from the
\* active set has been announced (exactly once), also when the check was cut
\* short between removal and announcement.
RemovedRemindersAnnounced ==
    pc \notin {"p_reminders", "p_announce"} =>
        \A r \in Range(history.removed) :
            Count(history.announced, r) = Count(history.removed, r)

\* C3: over any sequence of set_reminder calls and check cycles, a reminder
\* is announced at most as often as it was added: never twice.
AnnouncedAtMostOnce ==
    \A r \in Range(history.announced) :
        Count(history.announced, r) <= Count(history.added, r)

\* a reminder was announced, and a later check cycle starts with another pending
AnnouncedOnceWitness ==
    /\ pc = "p_reminders"
    /\ Len(history.announced) >= 1
    /\ reminders # <<>>
    /\ now >= reminders[1].time

\* C4: every reminder that is in the persisted config when the process
\* starts is in the active reminder set once initialisation completes.
PersistedRemindersActive ==
    pc = "start" => \A r \in Range(history.at_start) : r \in Range(reminders)

\* C5: each of the thresholds 20, 10, 5 warns at most once per low period,
\* and after a check that read a charge above 20% all three flags are clear.
BatteryWarnsOncePerLowPeriod ==
    /\ \A t \in {20, 10, 5} : battery_log.warned[t] <= 1
    /\ battery_log.high => battery_thresholds = AllClear

\* all three thresholds have warned, once each, within one low period
BatteryAllWarnedWitness ==
    /\ \A t \in {20, 10, 5} : battery_log.warned[t] = 1 /\ battery_thresholds[t]
    /\ pc = "p_listen"

MatchesTimeOrDate(query) ==
    \/ AnyKeyword(TimeKeywords, Lower(query))
    \/ AnyKeyword(DateKeywords, Lower(query))

ResponseReady == pc \in {"i_speak", "c_speak"}

ExcitedGetsJoyReply ==
    (/\ pc = "c_speak"
     /\ turn.text = U_excited
     /\ ~anthropic_client
     /\ turn.emotions.source = "fallback") =>
        /\ turn.emotions.primary = "Joy"
        /\ turn.emotions.score = 50
        /\ turn.response = [kind |-> "emotion_aware", tag |-> "Joy"]

\* the utterance with the first case-insensitive occurrence of word removed
RemoveFirstOccurrence(text, word) ==
    LET text_lower == Lower(text)
        i == CHOOSE k \in 1..(Len(text) - Len(word) + 1) :
                 /\ SubSeq(text_lower, k, k + Len(word) - 1) = word
                 /\ \A j \in 1..(k - 1) : SubSeq(text_lower, j, j + Len(word) - 1) # word
    IN  SubSeq(text, 1, i - 1) \o SubSeq(text, i + Len(word), Len(text))

QueryText(query) == IF query = None THEN <<>> ELSE query

\* C8: for an utterance containing "may" (case-insensitive) check_wake_word
\* returns detected and the utterance with only the first wake-word
\* occurrence removed, trimmed; without the wake word, not detected.  Stated
\* up to letter case and with None read as the empty query.
WakeQueryRemovesFirstOnly ==
    "check_wake_word" \in fn.called =>
        IF fn.text # None /\ Contains(Lower(fn.text), WAKE_WORDS[1])
        THEN /\ fn.wake.detected
             /\ QueryText(fn.wake.query)
                    = Lower(Strip(RemoveFirstOccurrence(fn.text, WAKE_WORDS[1])))
        ELSE ~fn.wake.detected

\* C9: check_termination is true for an utterance that contains a
\* termination phrase as a substring and false for one that contains none.
TerminationExactSubstring ==
    "check_termination" \in fn.called =>
        fn.term = (/\ fn.text # None
                   /\ \E i \in 1..Len(TERMINATION_WORDS) :
                          Contains(fn.text, TERMINATION_WORDS[i]))

\* phrase occurs in text at position k, letter case ignored
OccursAt(text, phrase, k) ==
    /\ k + Len(phrase) - 1 <= Len(text)
    /\ \A j \in 1..Len(phrase) : LowerChar(text[k + j - 1]) = phrase[j]

\* C9, amended: check_termination is true exactly for the utterances that
\* contain a termination phrase as a case-insensitive substring; false for
\* the others, the empty and the missing utterance included.
TerminationCaseInsensitive ==
    "check_termination" \in fn.called =>
        fn.term = (/\ fn.text # None
                   /\ \E i \in 1..Len(TERMINATION_WORDS), k \in 1..Len(fn.text) :
                          OccursAt(fn.text, TERMINATION_WORDS[i], k))

\* a capitalised termination phrase inside a longer utterance was recognised
TerminationWitness ==
    /\ "check_termination" \in fn.called
    /\ fn.term
    /\ fn.text # Lower(fn.text)
    /\ Len(fn.text) > 14

LoopPositions == InTry \cup OutsideTry
Farewells == {"farewell", "shutdown"}

WakePositions == {"i_emotion", "i_respond", "i_speak", "c_enter"}

\* C11: every wake-word detection in the passive loop is followed by entry into
\* the conversation loop (conversation_active true, the opening prompt spoken),
\* with no inline query, with an inline query that was answered, and with an
\* inline query that is a termination phrase; only an exception or the user's
\* interrupt cuts the way short.
WakeDetectionEntersConversation ==
    /\ [](pc \in WakePositions =>
            /\ turn.wake_detected
            /\ check_wake_word(turn.text).detected
            /\ (pc \in {"i_emotion", "i_respond", "i_speak"} => Truthy(turn.query)))
    /\ [][(pc \in WakePositions /\ pc' \notin WakePositions) =>
             \/ /\ pc = "c_enter"
                /\ pc' = "c_listen"
                /\ conversation_active'
                /\ said' = "opening"
             \/ pc' \in {"p_sleep", "p_farewell"}]_vars
    /\ [][(pc = "i_speak" /\ pc' = "c_enter") =>
             (said' = "response" /\ Len(appended') = Len(appended) + 1)]_vars

\* "may goodbye" in the passive loop: the inline query "goodbye" was answered,
\* then the conversation loop was entered
WakeTerminationQueryWitness ==
    /\ pc = "c_listen"
    /\ conversation_active
    /\ said = "opening"
    /\ turn.wake_detected
    /\ turn.text = U_may_goodbye
    /\ Len(appended) = 1

\* C12: in the conversation loop an utterance containing a termination phrase
\* gets the farewell, conversation_active is set false and the loop is left on
\* that turn, with no emotion detection and no response pipeline run for it.
TerminationEndsConversation ==
    /\ [](pc \in {"c_emotion", "c_respond", "c_speak"} => ~check_termination(turn.text))
    /\ [](pc = "c_goodbye" =>
            /\ conversation_active
            /\ check_termination(turn.text)
            /\ turn.emotions = NoEmotions
            /\ turn.response = NoResponse
            /\ ~turn.hume_called
            /\ turn.models_tried = 0)
    /\ [][(pc = "c_goodbye" /\ pc' # "c_goodbye") =>
             \/ /\ pc' = "p_reminders"
                /\ said' = "goodbye"
                /\ ~conversation_active'
                /\ context' = context
                /\ appended' = appended
             \/ pc' \in {"p_sleep", "p_farewell"}]_vars
    /\ [][(conversation_active /\ ~conversation_active') => pc = "c_goodbye"]_vars

\* the conversation was left through a termination phrase after a responded turn
TerminatedConversationWitness ==
    /\ pc = "p_reminders"
    /\ said = "goodbye"
    /\ ~conversation_active
    /\ ~sigint
    /\ Len(appended) >= 2

\* C13: with a model client configured and no earlier stage answering, the
\* models are tried in list order, the next one after any failure of the
\* previous one, and the emotion-aware fallback is used only after every model
\* of the list was tried and failed.
FallbackOnlyAfterAllModels ==
    (/\ ResponseReady
     /\ anthropic_client
     /\ turn.response.kind = "emotion_aware") =>
        turn.models_tried = Len(ModelsToTry)

\* the last call of detect_emotions_fast got no emotion from the service
LastRunFailed == fn.runs > 0 /\ fn.failed[Len(fn.failed)]

\* C14: emotion detection always returns a result, and for every failure of the
\* emotion service (missing or placeholder credential, network error, failing
\* status of either request, missing job id, empty or malformed predictions)
\* the primary label is one of Joy, Sadness, Calm and the score is 0.5.
EmotionAlwaysReturned ==
    fn.runs > 0 =>
        /\ fn.emotions # NoEmotions
        /\ fn.emotions.primary # ""
        /\ LastRunFailed =>
               /\ fn.emotions.primary \in {"Joy", "Sadness", "Calm"}
               /\ fn.emotions.score = 50

\* a configured service whose predictions do not parse: the fallback answered
MalformedPayloadWitness ==
    /\ fn.runs > 0
    /\ fn.key = "valid"
    /\ fn.reply.net = "ok" /\ fn.reply.post_status = 201 /\ fn.reply.job_id
    /\ fn.reply.get_status = 200 /\ fn.reply.payload = "malformed"
    /\ fn.emotions.primary = "Sadness"
    /\ fn.emotions.score = 50

\* the bucket the claim gives to a polarity
BucketOfPolarity(polarity) ==
    IF polarity = PolarityError THEN "Calm"
    ELSE IF polarity > 30 THEN "Joy"
    ELSE IF polarity < 0 - 30 THEN "Sadness"
    ELSE "Calm"

\* C15: with the emotion service failing the fallback emotion is a function of
\* the text's polarity: above 0.3 Joy, below -0.3 Sadness, anything else (0.3
\* and -0.3 themselves, a failing polarity computation) Calm, always with score
\* 0.5; runs on the same text give the same result.
FallbackIsFunctionOfPolarity ==
    /\ LastRunFailed =>
           /\ fn.emotions.primary = BucketOfPolarity(fn.polarity)
           /\ fn.emotions.score = 50
    /\ (fn.runs > 1 /\ \A i \in 1..Len(fn.failed) : fn.failed[i]) =>
           fn.emotions = fn.first

\* polarity exactly 0.3, the service failing on both runs: Calm both times
BoundaryPolarityWitness ==
    /\ fn.runs = 2
    /\ fn.polarity = 30
    /\ fn.key = "valid"
    /\ fn.failed = <<TRUE, TRUE>>
    /\ fn.emotions.primary = "Calm"
    /\ fn.first = fn.emotions

\* C16: a non-empty inline query after the wake word goes through the same
\* stages as an utterance of the conversation loop; an inline query matching a
\* casual phrase ("may hello") gets the canned casual reply and the language
\* model is not called.
InlineCasualGetsCasualReply ==
    (pc = "i_speak" /\ AnyKeyword(CasualKeys, Lower(turn.query))) =>
        /\ turn.response.kind = "casual"
        /\ turn.models_tried = 0

\* C17: a send while disconnected is a silent no-op, and after a failure the
\* next send attempts a reconnect, so that a send made once the display is
\* reachable again re-establishes the connection.
SendReconnectsAfterFailure ==
    [][(/\ pc = "run"
        /\ fn'.sends = fn.sends + 1
        /\ ~esp32.connected
        /\ fn.link = "up") =>
            (fn'.attempts = fn.attempts + 1 /\ esp32'.connected)]_vars

\* a step in which the user's interrupt arrives
InterruptArrives ==
    \/ ~sigint /\ sigint'
    \/ ~turn.interrupt_swallowed /\ turn'.interrupt_swallowed

\* C18: a user interrupt arriving at any point of the run is caught and leads
\* to a farewell utterance, the display connection is closed before the process
\* exits, and nothing is sent to the display after the close.
InterruptLeadsToFarewellAndClose ==
    /\ [][InterruptArrives => pc' \in {"p_farewell", "m_farewell"}]_vars
    /\ [](pc = "exited" => (said \in Farewells /\ esp32.closed))
    /\ [](esp32.closed => ~esp32.connected)

\* C19: when config.json is absent or corrupt at startup the store is created
\* holding the defaults, and after every later mutation (a reminder set, due
\* reminders removed) it holds exactly the session's current reminders.
ConfigStoreCreatedAndCurrent ==
    (pc # "boot" /\ history.at_start = <<>>) =>
        /\ disk.exists
        /\ disk.valid
        /\ disk.reminders = reminders

\* a listen of the conversation loop that yields no utterance
ConvTimeout == ConvListen /\ pc' = "c_listen"

\* C20: in the conversation loop every listen that yields no utterance is
\* answered by the re-engagement prompt and leaves the loop active with
\* conversation_active true, however many came before; the flag is cleared only
\* through a termination phrase, so timeouts alone never lead back to the
\* passive loop.
TimeoutKeepsConversationActive ==
    /\ [](pc = "c_listen" => (conversation_active /\ ENABLED ConvTimeout))
    /\ [][pc = "c_listen" =>
             pc' \in {"c_listen", "c_goodbye", "c_emotion", "p_sleep", "p_farewell"}]_vars
    /\ [][(pc = "c_listen" /\ pc' = "c_listen") =>
             /\ conversation_active'
             /\ said' = "reengage"
             /\ turn' = NoTurn
             /\ context' = context]_vars
    /\ [][(pc = "c_goodbye" \/ ~(conversation_active /\ ~conversation_active'))]_vars

\* re-engaged after a timeout that followed a responded turn, time having passed
ReengagedWitness ==
    /\ pc = "c_listen"
    /\ said = "reengage"
    /\ conversation_active
    /\ Len(appended) >= 1
    /\ now > 0

\* C21: the stages short-circuit with the deterministic intent match first: in
\* the conversation loop an utterance matching both a time or date keyword and
\* a casual phrase ("hello what time is it") gets the time or date string, not
\* a canned casual reply.
TimeBeatsCasualInConversation ==
    (/\ pc = "c_speak"
     /\ MatchesTimeOrDate(turn.text)
     /\ AnyKeyword(CasualKeys, Lower(turn.text))) =>
        turn.response.kind \in {"time", "date"}

\* a step of the idle loop that is a call of check_battery
BatteryCall == pc = "p_battery" /\ pc' = "p_listen"

\* a call of check_battery that read the charge
BatteryRead == BatteryCall /\ fn' # fn

\* the reading and the warning of the read just made
LastRead == fn.reads[Len(fn.reads)]

\* C22: the battery is read at most once per 300 seconds: two reads are at
\* least 300 seconds apart, a call made sooner gives no warning and changes
\* neither the threshold flags nor the time of the last check, and the first
\* read comes no earlier than 300 seconds after startup.
BatteryReadThrottled ==
    /\ [](fn.last_read = NoRead \/ fn.last_read >= 300)
    /\ [][BatteryRead =>
             /\ fn'.last_read = now
             /\ now - last_battery_check >= 300
             /\ (fn.last_read # NoRead => now - fn.last_read >= 300)]_vars
    /\ [][(BatteryCall /\ now - last_battery_check < 300) =>
             /\ fn' = fn
             /\ said' = said
             /\ battery_thresholds' = battery_thresholds
             /\ last_battery_check' = last_battery_check]_vars

\* a read at 300 seconds, then a call at 450 seconds that was throttled
ThrottledCallWitness ==
    /\ pc = "p_listen"
    /\ fn.last_read = 300
    /\ last_battery_check = 300
    /\ now = 450
    /\ Len(fn.reads) = 1

\* C23: the threshold flags are re-armed only by a reading above 20%: once the
\* 10 and 5 alerts have fired, a charge that rises into 11..20 and falls to 10
\* or below again brings no new warning for 10 or 5 until a check has read a
\* charge above 20%.
FlagsRearmedOnlyAboveTwenty ==
    /\ [][(\E t \in {20, 10, 5} : battery_thresholds[t] /\ ~battery_thresholds'[t]) =>
             (BatteryRead /\ fn'.reads[Len(fn'.reads)].percent > 20
              /\ battery_thresholds' = AllClear)]_vars
    /\ [][(BatteryRead /\ battery_thresholds[10] /\ battery_thresholds[5]
           /\ fn'.reads[Len(fn'.reads)].percent <= 20) =>
             (/\ fn'.reads[Len(fn'.reads)].warning \notin {10, 5}
              /\ battery_thresholds'[10]
              /\ battery_thresholds'[5])]_vars

\* the 5 alert fired at 4%, the charge rose to 15%, fell to 8%: no warning
RiseAndFallWitness ==
    /\ Len(fn.reads) = 3
    /\ fn.reads[1] = [percent |-> 4, warning |-> 5]
    /\ fn.reads[2] = [percent |-> 15, warning |-> 0]
    /\ fn.reads[3] = [percent |-> 8, warning |-> 0]
    /\ battery_thresholds[10] /\ battery_thresholds[5]

\* the thresholds at or above the charge whose flag is not set
Unalerted(percent, alerted) == {t \in {20, 10, 5} : percent <= t /\ ~alerted[t]}

\* C28: one battery read gives at most one warning and marks at most one
\* threshold, the highest unalerted one the charge is at or below; a charge that
\* falls straight to 5% or less and stays there gets a warning on each of three
\* successive reads, for 20, then 10, then 5.
OneWarningPerRead ==
    [][BatteryRead =>
         LET percent == fn'.reads[Len(fn'.reads)].percent
             warning == fn'.reads[Len(fn'.reads)].warning
             open == Unalerted(percent, battery_thresholds)
             marked == {t \in {20, 10, 5} : ~battery_thresholds[t] /\ battery_thresholds'[t]}
         IN  IF open = {}
             THEN marked = {} /\ warning = 0 /\ said' = said
             ELSE /\ marked = {CHOOSE t \in open : \A u \in open : t >= u}
                  /\ warning \in marked
                  /\ said' = "battery"]_vars

\* the charge at 4% on three successive reads: warnings for 20, 10 and 5
ThreeWarningsWitness ==
    /\ fn.reads = <<[percent |-> 4, warning |-> 20], [percent |-> 4, warning |-> 10],
                    [percent |-> 4, warning |-> 5]>>
    /\ \A t \in {20, 10, 5} : battery_thresholds[t]

\* the casual phrases an utterance contains, by their place in the table
CasualHits(text) == {i \in 1..Len(CasualKeys) : Contains(Lower(text), CasualKeys[i])}

\* C24: in the conversation loop an utterance matching a casual phrase (and no
\* termination phrase) gets a canned reply of the first matching table entry,
\* and the language model is never called for it, with or without a client.
CasualReplyBypassesModel ==
    (pc = "c_speak" /\ CasualHits(turn.text) # {}) =>
        /\ ~check_termination(turn.text)
        /\ turn.response.kind = "casual"
        /\ \E i \in CasualHits(turn.text) :
              /\ turn.response.tag = CasualKeys[i]
              /\ \A j \in CasualHits(turn.text) : i <= j
        /\ turn.models_tried = 0

\* "Hello" in the conversation loop with a model client: the canned reply
CasualWithClientWitness ==
    /\ pc = "c_speak"
    /\ turn.text = U_hello
    /\ anthropic_client
    /\ turn.response.kind = "casual"
    /\ turn.models_tried = 0

\* the types of the display messages of the turn in progress, in call order
LogTypes == [i \in 1..Len(fn.log) |-> fn.log[i].type]

\* C25: a failure to send to the display is never propagated: whatever the
\* link does, the turn speaks the response and appends the pair to the context
\* as with a working display, and the RESPONSE message of a reply is sent
\* before its SPEAKING message.
DisplayFailureNotPropagated ==
    /\ [][/\ pc = "t_response" => pc' \in {"t_response", "t_speak"}
          /\ pc = "t_speak" => pc' \in {"t_speak", "t_play", "t_append"}
          /\ pc = "t_play" => pc' \in {"t_play", "t_append"}
          /\ (pc = "t_append" /\ pc' # "t_append") =>
                 /\ pc' = "run"
                 /\ said = "response"
                 /\ appended' = Append(appended, Len(appended) + 1)
                 /\ Len(context') = Len(context) + 1]_vars
    /\ [](\A i \in 1..Len(fn.log) :
             fn.log[i].type = "SPEAKING" =>
                 \A j \in 1..Len(fn.log) : fn.log[j].type = "RESPONSE" => j < i)
    /\ [](pc \in {"t_play", "t_append"} /\ fn.delivered = fn.sends =>
             (LogTypes # <<>> /\ LogTypes[1] = "RESPONSE" /\ LogTypes[2] = "SPEAKING"))

\* a turn whose RESPONSE and SPEAKING sends both failed, appended all the same
FailedSendsTurnWitness ==
    /\ pc = "run"
    /\ Len(appended) = 1
    /\ said = "response"
    /\ fn.sends >= 2
    /\ fn.delivered = 0
    /\ fn.attempts >= 3

\* C30: every SPEAKING message sent to the display is followed by a READY
\* message when the utterance finishes, on every path of speak (synthesis
\* succeeding, not configured, failing), and is_speaking is false whenever
\* speak has returned.
SpeakingFollowedByReady ==
    /\ pc \in {"t_append", "run", "t_response"} => ~fn.is_speaking
    /\ (/\ pc = "t_append"
        /\ fn.delivered = fn.sends
        /\ esp32.connected
        /\ \E i \in 1..Len(fn.log) : fn.log[i].type = "SPEAKING") =>
           fn.log[Len(fn.log)].type = "READY"

\* C26: conversation_active is true exactly while control is inside the
\* conversation loop: it is false whenever the passive loop runs its reminder
\* check, battery check or wake-word listen, also in the passive iterations
\* after a conversation loop that ended by an error.
ConversationActiveExactlyInLoop ==
    /\ pc \in {"c_listen", "c_emotion", "c_respond", "c_speak", "c_goodbye"} =>
           conversation_active
    /\ pc \in {"p_reminders", "p_announce", "p_battery", "p_listen"} =>
           ~conversation_active

\* some active reminder is due
DuePending == \E i \in 1..Len(reminders) : reminders[i].time <= now

\* positions of the loop other than the checks at the start of an iteration
AfterChecks ==
    {"p_listen", "c_enter", "c_listen", "c_goodbye", "c_emotion", "c_respond", "c_speak"}

\* C27: the reminder and battery checks run only at the start of a passive
\* iteration: in the conversation loop and in the wake-word listen no check
\* runs, a due reminder stays unannounced in the active set until the
\* conversation ends and the next passive iteration begins, and a further
\* timeout that keeps it waiting is always possible.
ChecksOnlyAtIterationStart ==
    /\ [][(pc \in AfterChecks) =>
             /\ \A i \in 1..Len(reminders) :
                    i <= Len(reminders') /\ reminders'[i] = reminders[i]
             /\ history'.removed = history.removed
             /\ history'.announced = history.announced
             /\ UNCHANGED batteryVars
             /\ (said' # said => ~(said' \in {"reminder", "battery"}))]_vars
    /\ [][(history'.removed # history.removed) => pc = "p_reminders"]_vars
    /\ [][(history'.announced # history.announced) => pc = "p_announce"]_vars
    /\ [][(battery_log' # battery_log \/ last_battery_check' # last_battery_check) =>
             pc = "p_battery"]_vars
    /\ [][(DuePending /\ pc \in AfterChecks /\ pc' # "p_reminders") => DuePending']_vars
    /\ []((pc = "c_listen" /\ DuePending) =>
             ENABLED (PollConvListen /\ pc' = "c_listen" /\ DuePending'))

\* a due reminder waiting through a responded turn and a timeout
OverdueInConversationWitness ==
    /\ pc = "c_listen"
    /\ conversation_active
    /\ DuePending
    /\ Len(appended) >= 1
    /\ said = "reengage"
    /\ history.announced = <<>>

\* C29: the context window changes only by the append of a responded turn: a
\* conversation turn ending in a timeout or a termination phrase, a passive
\* iteration with no utterance, with no wake word, or with a wake word and no
\* inline query, and every reminder or battery announcement leave it unchanged.
ContextChangesOnlyByAppend ==
    /\ [][(context' # context) =>
             /\ pc \in {"i_speak", "c_speak"}
             /\ turn.response.kind # "none"
             /\ said' = "response"
             /\ context' = AppendContext(context, Entry)
             /\ appended' = Append(appended, Entry)]_vars
    /\ [][(pc \in {"p_reminders", "p_announce", "p_battery", "p_listen", "c_enter",
                    "c_listen", "c_goodbye"}) => context' = context]_vars
    /\ [][(said' # said /\ said' \in {"reminder", "battery", "goodbye", "reengage"}) =>
             context' = context]_vars

\* after a responded turn, a termination and a reminder announcement the
\* window still holds that one turn
AnnouncementAfterTurnWitness ==
    /\ pc = "p_battery"
    /\ said = "reminder"
    /\ history.announced # <<>>
    /\ ~conversation_active
    /\ Len(appended) = 1
    /\ context = appended

=============================================================================
